---- MODULE Spec2Model ----
(***************************************************************************)
(* Model of src/tokenizer.rs: the Tokenizer (a Peekable<Chars> cursor with *)
(* position fields) and its Iterator::next, which produces one Token per   *)
(* call.  A text is a sequence of one-character strings; a Token is a      *)
(* record [kind, num, str] (num is the payload of Integer, str the payload *)
(* of Name); Option<char>::None is the string "None", Option<Token> is a   *)
(* sequence of length 0 (None) or 1 (Some).                                *)
(***************************************************************************)
EXTENDS Integers, Sequences, FiniteSets, TLC

VARIABLES self, ret, panicked, hist, last

vars == <<self, ret, panicked, hist, last>>

\* Longest enumerated input text.
MaxLen == 3

\* Longest enumerated input text for the specification that also calls the
\* private methods directly.
MaxRawLen == 3

(***************************************************************************)
(* Characters                                                              *)
(***************************************************************************)
None == "None"

DigitSeq == <<"0", "1", "2", "3", "4", "5", "6", "7", "8", "9">>

\* '0'...'9'
Digits == {DigitSeq[i] : i \in 1..10}

\* 'a'...'z'
Lower == {"a", "b", "c", "d", "e", "f", "g", "h", "i", "j", "k", "l", "m",
          "n", "o", "p", "q", "r", "s", "t", "u", "v", "w", "x", "y", "z"}

\* 'A'...'Z'
Upper == {"A", "B", "C", "D", "E", "F", "G", "H", "I", "J", "K", "L", "M",
          "N", "O", "P", "Q", "R", "S", "T", "U", "V", "W", "X", "Y", "Z"}

\* ' ' | '\t' | '\n'
Whitespace == {" ", "\t", "\n"}

\* 'a'...'z' | 'A'...'Z' | '0'...'9' | '_'
AlnumChars == Lower \cup Upper \cup Digits \cup {"_"}

(***************************************************************************)
(* Token                                                                   *)
(***************************************************************************)
Tok(k) == [kind |-> k, num |-> 0, str |-> <<>>]

Integer(n) == [kind |-> "Integer", num |-> n, str |-> <<>>]

Name(s) == [kind |-> "Name", num |-> 0, str |-> s]

Boolean(b) == [kind |-> "Boolean", num |-> IF b THEN 1 ELSE 0, str |-> <<>>]

\* The static keyword table: spelling -> reserved-word Token.
KEYWORDS ==
    {<< <<"a", "n", "d">>, Tok("And") >>,
     << <<"a", "r", "r", "a", "y">>, Tok("Array") >>,
     << <<"i", "f">>, Tok("If") >>,
     << <<"l", "e", "t">>, Tok("Let") >>,
     << <<"n", "o", "t">>, Tok("Not") >>,
     << <<"o", "r">>, Tok("Or") >>,
     << <<"p", "r", "i", "n", "t">>, Tok("Print") >>,
     << <<"w", "h", "i", "l", "e">>, Tok("While") >>}

\* HashMap::get on the keyword table: Option<&Token>.
KEYWORDS_get(s) ==
    IF \E e \in KEYWORDS : e[1] = s
    THEN << (CHOOSE e \in KEYWORDS : e[1] = s)[2] >>
    ELSE <<>>

(***************************************************************************)
(* Tokenizer: Peekable<Chars> and the cursor fields                        *)
(***************************************************************************)
\* Tokenizer::new.  len is the byte length of the text; the texts modelled
\* are ASCII, one byte per character.
new(input) ==
    [text |-> input, iter |-> 0, peeked |-> <<>>,
     len |-> Len(input), pos |-> 0, line |-> 1, col |-> 0]

\* Chars::next on the underlying iterator.
chars_next(s) ==
    IF s.iter < Len(s.text)
    THEN [self |-> [s EXCEPT !.iter = @ + 1], c |-> s.text[s.iter + 1]]
    ELSE [self |-> s, c |-> None]

\* Tokenizer::next_char = Peekable::next: take the buffered item if there is
\* one, else advance the underlying iterator.
next_char(s) ==
    IF s.peeked # <<>>
    THEN [self |-> [s EXCEPT !.peeked = <<>>], c |-> s.peeked[1]]
    ELSE chars_next(s)

\* Variant of peek_char that advances the iterator without buffering the
\* item it read.
peek_char_drop(s) == chars_next(s)

\* Tokenizer::peek_char = Peekable::peek: fill the one-item buffer from the
\* underlying iterator if it is empty, and return the buffered item.
peek_char(s) ==
    IF s.peeked # <<>>
    THEN [self |-> s, c |-> s.peeked[1]]
    ELSE LET n == chars_next(s)
         IN  [self |-> [n.self EXCEPT !.peeked = <<n.c>>], c |-> n.c]

\* Number of characters taken out of the Peekable so far.
Consumed(s) ==
    s.iter - (IF s.peeked # <<>> /\ s.peeked[1] # None THEN 1 ELSE 0)

(***************************************************************************)
(* consume_whitespace                                                      *)
(***************************************************************************)
\* Variant of the loop that leaves after one whitespace character.
ws_loop_one(s) ==
    LET p == peek_char(s)
    IN  IF p.c \in Whitespace
        THEN next_char([p.self EXCEPT
                           !.line = IF p.c = "\n" THEN @ + 1 ELSE @,
                           !.pos = @ + 1]).self
        ELSE p.self

RECURSIVE ws_loop_notab(_)
\* Variant of the loop that does not count the tab as whitespace.
ws_loop_notab(s) ==
    LET p == peek_char(s)
    IN  IF p.c \in {" ", "\n"}
        THEN ws_loop_notab(next_char([p.self EXCEPT
                                   !.line = IF p.c = "\n" THEN @ + 1 ELSE @,
                                   !.pos = @ + 1]).self)
        ELSE p.self

RECURSIVE ws_loop(_)
\* The `while let Some(&c) = self.peek_char()` loop: each space, tab or
\* newline bumps pos (and line on a newline) and is consumed; anything
\* else, or the end of the text, leaves the loop.
ws_loop(s) ==
    LET p == peek_char(s)
    IN  IF p.c \in Whitespace
        THEN ws_loop(next_char([p.self EXCEPT
                                   !.line = IF p.c = "\n" THEN @ + 1 ELSE @,
                                   !.pos = @ + 1]).self)
        ELSE p.self

\* Tokenizer::consume_whitespace
consume_whitespace(s) ==
    LET p == peek_char(s)
    IN  IF p.c \in Whitespace THEN ws_loop(p.self) ELSE p.self

(***************************************************************************)
(* Literals and names                                                      *)
(***************************************************************************)
\* i32::MAX
I32Max == 2147483647

\* char -> decimal digit value
to_digit(c) == (CHOOSE i \in 1..10 : DigitSeq[i] = c) - 1

RECURSIVE parse_acc(_, _, _)
\* Checked accumulation: acc * 10 + d, failing when it would exceed i32::MAX.
parse_acc(str, i, acc) ==
    IF i > Len(str) THEN [ok |-> TRUE, val |-> acc]
    ELSE LET d == to_digit(str[i])
         IN  IF acc > (I32Max - d) \div 10
             THEN [ok |-> FALSE, val |-> 0]
             ELSE parse_acc(str, i + 1, acc * 10 + d)

\* s.parse::<i32>() on a non-empty string of decimal digits: Ok(value), or
\* Err when the value does not fit 32 signed bits.
parse_i32(str) == parse_acc(str, 1, 0)

\* Variant of the digit loop that stops after the first digit.
digit_run_first(s, acc) == [self |-> peek_char(s).self, str |-> acc]

RECURSIVE digit_run(_, _)
\* The digit loop: push and consume peeked digits, stop at anything else.
digit_run(s, acc) ==
    LET p == peek_char(s)
    IN  IF p.c \in Digits
        THEN digit_run(next_char(p.self).self, Append(acc, p.c))
        ELSE [self |-> p.self, str |-> acc]

RECURSIVE alnum_run(_, _)
\* The identifier loop: push and consume peeked letters, digits and
\* underscores, stop at anything else.
alnum_run(s, acc) ==
    LET p == peek_char(s)
    IN  IF p.c \in AlnumChars
        THEN alnum_run(next_char(p.self).self, Append(acc, p.c))
        ELSE [self |-> p.self, str |-> acc]

\* Variant of the keyword match that also knows the boolean literals.
keyword_match_bool(str) ==
    LET k == KEYWORDS_get(str)
    IN  IF k # <<>> THEN k[1]
        ELSE IF str = <<"t", "r", "u", "e">> THEN Boolean(TRUE)
        ELSE IF str = <<"f", "a", "l", "s", "e">> THEN Boolean(FALSE)
        ELSE Name(str)

\* Variant of the keyword match that forgets the Or arm.
keyword_match_no_or(str) ==
    LET k == KEYWORDS_get(str)
    IN  IF k # <<>> /\ k[1].kind \in {"And", "Array", "If", "Let", "Not",
                                      "Print", "While"}
        THEN Tok(k[1].kind)
        ELSE Name(str)

\* `match KEYWORDS.get(s.as_str())`: the eight reserved words map to their
\* Token, every other outcome of the lookup to Name(s).
keyword_match(str) ==
    LET k == KEYWORDS_get(str)
    IN  IF k # <<>> /\ k[1].kind \in {"And", "Array", "If", "Let", "Not",
                                      "Or", "Print", "While"}
        THEN Tok(k[1].kind)
        ELSE Name(str)

(***************************************************************************)
(* Iterator::next                                                          *)
(***************************************************************************)
Some(s, tok) == [self |-> s, ret |-> <<tok>>, panic |-> FALSE]

\* ':' arm
match_colon(s) ==
    LET p == peek_char(s)
    IN  IF p.c = "=" THEN Some(next_char(p.self).self, Tok("Assign"))
        ELSE Some(p.self, Tok("Colon"))

\* '=' arm
match_equal(s) ==
    LET p == peek_char(s)
    IN  IF p.c = "=" THEN Some(next_char(p.self).self, Tok("Eq"))
        ELSE Some(p.self, Tok("EqualSign"))

\* '>' arm
match_gt(s) ==
    LET p == peek_char(s)
    IN  IF p.c = "=" THEN Some(next_char(p.self).self, Tok("Ge"))
        ELSE Some(p.self, Tok("Gt"))

\* Variant of the '<' arm that consumes the character it looked at.
match_lt_eager(s) ==
    LET n == next_char(s)
    IN  IF n.c = "=" THEN Some(n.self, Tok("Le"))
        ELSE IF n.c = ">" THEN Some(n.self, Tok("Ne"))
        ELSE Some(n.self, Tok("Lt"))

\* '<' arm
match_lt(s) ==
    LET p == peek_char(s)
    IN  IF p.c = "=" THEN Some(next_char(p.self).self, Tok("Le"))
        ELSE IF p.c = ">" THEN Some(next_char(p.self).self, Tok("Ne"))
        ELSE Some(p.self, Tok("Lt"))

\* '0'...'9' arm: the unwrap of a failed parse panics.
match_digit(s, c) ==
    LET r == digit_run(s, <<c>>)
        num == parse_i32(r.str)
    IN  IF num.ok THEN Some(r.self, Integer(num.val))
        ELSE [self |-> r.self, ret |-> <<>>, panic |-> TRUE]

\* 'a'...'z' | 'A'...'Z' arm
match_alpha(s, c) ==
    LET r == alnum_run(s, <<c>>)
    IN  Some(r.self, keyword_match(r.str))

\* The arms that return a Token for the one character taken.
SingleSymbol(c) ==
    CASE c = "*" -> "Asterisk"
      [] c = "{" -> "BraceLeft"
      [] c = "}" -> "BraceRight"
      [] c = "[" -> "BracketLeft"
      [] c = "]" -> "BracketRight"
      [] c = "." -> "Dot"
      [] c = "-" -> "Minus"
      [] c = "(" -> "ParenLeft"
      [] c = ")" -> "ParenRight"
      [] c = "+" -> "Plus"
      [] c = ";" -> "Semicolon"
      [] c = "/" -> "Slash"
      [] OTHER -> "Invalid"

\* `match c { ... }` on the character taken by next().
dispatch(s, c) ==
    CASE c = ":" -> match_colon(s)
      [] c = "=" -> match_equal(s)
      [] c = ">" -> match_gt(s)
      [] c = "<" -> match_lt(s)
      [] c \in Digits -> match_digit(s, c)
      [] c \in Lower \cup Upper -> match_alpha(s, c)
      [] OTHER -> Some(s, Tok(SingleSymbol(c)))

\* Variant of next that looks at the first character without taking it.
next_peek(s) ==
    LET n == peek_char(consume_whitespace(s))
    IN  IF n.c # None THEN dispatch(n.self, n.c)
        ELSE [self |-> n.self, ret |-> <<>>, panic |-> FALSE]

\* Iterator::next for Tokenizer
next(s) ==
    LET n == next_char(consume_whitespace(s))
    IN  IF n.c # None THEN dispatch(n.self, n.c)
        ELSE [self |-> n.self, ret |-> <<>>, panic |-> FALSE]

(***************************************************************************)
(* Input texts                                                             *)
(***************************************************************************)
TextSymbols ==
    <<"+", "-", "*", "/", ":", ":", "=", "<", "<", "=">>

TextInts ==
    <<"1", " ", "2", " ", "3", " ", "1", "2", "3", " ", "9", "8", "7">>

TextKeywords ==
    <<"a", "n", "d", " ", "a", "r", "r", "a", "y", " ", "i", "f", " ", "l", "e", "t", " ", "n", "o", "t", " ", "o", "r", " ", "p", "r", "i", "n", "t", " ",
      "w", "h", "i", "l", "e">>

TextNames ==
    <<"a", "n", "d", " ", "x", "x", "x", " ", "i", "f", " ", "I", "f">>

TextWhitespace ==
    <<"t", " ", "\t", "\n", "a">>

TextIntName ==
    <<"1", "2", "3", "a", "b", "c">>

TextNameInt ==
    <<"a", "b", "c", "1", "2", "3">>

TextTrue ==
    <<"t", "r", "u", "e">>

TextFalse ==
    <<"f", "a", "l", "s", "e">>

TextI32Max ==
    <<"2", "1", "4", "7", "4", "8", "3", "6", "4", "7">>

TextOverflow ==
    <<"2", "1", "4", "7", "4", "8", "3", "6", "4", "8">>

TextLongDigits ==
    <<"0", "0", "0", "9", "9", "9", "9", "9", "9", "9", "9", "9", "9", "9", " ", "1">>

TextSingles ==
    <<"*", "{", "}", "[", "]", ".", "-", "(", ")", ";", "/">>

TextBlank ==
    <<" ", "\t", "\n", "\t">>

TextUnder ==
    <<"a", "_", "1", " ", "_", "b", "\t", "O", "r">>

Scenarios ==
    {TextSymbols,
     TextInts,
     TextKeywords,
     TextNames,
     TextWhitespace,
     TextIntName,
     TextNameInt,
     TextTrue,
     TextFalse,
     TextI32Max,
     TextOverflow,
     TextLongDigits,
     TextSingles,
     TextBlank,
     TextUnder}

Alphabet ==
    {" ", "\n", ":", "=", "<", ">", "+", "0", "1", "i", "f", "I", "_", "#"}

RawAlphabet == {" ", "\n", "t", "1", "<", "="}

\* Every text over the alphabet of at most n characters.
Texts(A, n) == UNION {[1..k -> A] : k \in 0..n}

Inputs == Texts(Alphabet, MaxLen) \cup Scenarios

RawInputs == Texts(RawAlphabet, MaxRawLen) \cup {TextWhitespace, TextBlank}

(***************************************************************************)
(* The state machine: a Tokenizer built on one text, then calls on it.     *)
(* ret is the Option<Token> of the latest next(); panicked is set once a   *)
(* call has panicked; hist records, for each Token returned, the offsets   *)
(* [start, from, to) of the call (from is where whitespace skipping        *)
(* stopped); last records the latest call.                                 *)
(***************************************************************************)
InitOn(S) ==
    \E input \in S :
        /\ self = new(input)
        /\ ret = <<>>
        /\ panicked = FALSE
        /\ hist = <<>>
        /\ last = [op |-> "new", start |-> 0, from |-> 0, to |-> 0]

Init == InitOn(Inputs)

InitRaw == InitOn(RawInputs)

CallNext ==
    /\ ~panicked
    /\ LET r == next(self)
           from == Consumed(consume_whitespace(self))
       IN  /\ self' = r.self
           /\ ret' = r.ret
           /\ panicked' = r.panic
           /\ hist' = IF r.ret # <<>>
                      THEN Append(hist, [start |-> Consumed(self),
                                         from |-> from,
                                         to |-> Consumed(r.self),
                                         tok |-> r.ret[1]])
                      ELSE hist
           /\ last' = [op |-> "next", start |-> Consumed(self),
                       from |-> from, to |-> Consumed(r.self)]

CallConsumeWhitespace ==
    /\ ~panicked
    /\ self' = consume_whitespace(self)
    /\ last' = [op |-> "consume_whitespace", start |-> Consumed(self),
                from |-> Consumed(self), to |-> Consumed(self')]
    /\ UNCHANGED <<ret, panicked, hist>>

CallNextChar ==
    /\ ~panicked
    /\ self' = next_char(self).self
    /\ last' = [op |-> "next_char", start |-> Consumed(self),
                from |-> Consumed(self), to |-> Consumed(self')]
    /\ UNCHANGED <<ret, panicked, hist>>

CallPeekChar ==
    /\ ~panicked
    /\ self' = peek_char(self).self
    /\ last' = [op |-> "peek_char", start |-> Consumed(self),
                from |-> Consumed(self), to |-> Consumed(self')]
    /\ UNCHANGED <<ret, panicked, hist>>

Next == CallNext

Spec == Init /\ [][Next]_vars

NextRaw ==
    \/ CallNext
    \/ CallConsumeWhitespace
    \/ CallNextChar
    \/ CallPeekChar

SpecRaw == InitRaw /\ [][NextRaw]_vars

(***************************************************************************)
(* Vocabulary of the properties, read off the text alone                   *)
(***************************************************************************)
\* The characters of the text at offsets [a, b).
Slice(a, b) == SubSeq(self.text, a + 1, b)

\* Every character of the text at offsets [a, b) is in class C.
AllIn(a, b, C) == \A k \in (a + 1)..b : self.text[k] \in C

\* The character at offset a, or None at the end of the text.
CharAt(a) == IF a < Len(self.text) THEN self.text[a + 1] ELSE None

RECURSIVE RunEnd(_, _)
\* The offset at which the maximal run of class C starting at offset a ends.
RunEnd(a, C) == IF CharAt(a) \in C THEN RunEnd(a + 1, C) ELSE a

DigitValue(c) ==
    CASE c = "0" -> 0 [] c = "1" -> 1 [] c = "2" -> 2 [] c = "3" -> 3
      [] c = "4" -> 4 [] c = "5" -> 5 [] c = "6" -> 6 [] c = "7" -> 7
      [] c = "8" -> 8 [] c = "9" -> 9

RECURSIVE DecimalValue(_, _)
\* The decimal value of the first n characters of a digit string.
DecimalValue(lex, n) ==
    IF n = 0 THEN 0 ELSE DecimalValue(lex, n - 1) * 10 + DigitValue(lex[n])

\* The reserved word spelled by lex, or "" when lex spells none.
ReservedWord(lex) ==
    CASE lex = <<"a", "n", "d">> -> "And"
      [] lex = <<"a", "r", "r", "a", "y">> -> "Array"
      [] lex = <<"i", "f">> -> "If"
      [] lex = <<"l", "e", "t">> -> "Let"
      [] lex = <<"n", "o", "t">> -> "Not"
      [] lex = <<"o", "r">> -> "Or"
      [] lex = <<"p", "r", "i", "n", "t">> -> "Print"
      [] lex = <<"w", "h", "i", "l", "e">> -> "While"
      [] OTHER -> ""

\* The spelling of a Token that has only one.
Spelling(kind) ==
    CASE kind = "Asterisk" -> <<"*">>
      [] kind = "BraceLeft" -> <<"{">>
      [] kind = "BraceRight" -> <<"}">>
      [] kind = "BracketLeft" -> <<"[">>
      [] kind = "BracketRight" -> <<"]">>
      [] kind = "Colon" -> <<":">>
      [] kind = "Dot" -> <<".">>
      [] kind = "EqualSign" -> <<"=">>
      [] kind = "Minus" -> <<"-">>
      [] kind = "ParenLeft" -> <<"(">>
      [] kind = "ParenRight" -> <<")">>
      [] kind = "Plus" -> <<"+">>
      [] kind = "Semicolon" -> <<";">>
      [] kind = "Slash" -> <<"/">>
      [] kind = "Assign" -> <<":", "=">>
      [] kind = "Eq" -> <<"=", "=">>
      [] kind = "Ge" -> <<">", "=">>
      [] kind = "Gt" -> <<">">>
      [] kind = "Le" -> <<"<", "=">>
      [] kind = "Lt" -> <<"<">>
      [] kind = "Ne" -> <<"<", ">">>
      [] kind = "And" -> <<"a", "n", "d">>
      [] kind = "Array" -> <<"a", "r", "r", "a", "y">>
      [] kind = "If" -> <<"i", "f">>
      [] kind = "Let" -> <<"l", "e", "t">>
      [] kind = "Not" -> <<"n", "o", "t">>
      [] kind = "Or" -> <<"o", "r">>
      [] kind = "Print" -> <<"p", "r", "i", "n", "t">>
      [] kind = "While" -> <<"w", "h", "i", "l", "e">>
      [] OTHER -> <<>>

\* lex is the lexeme of tok.
IsLexemeOf(lex, tok) ==
    CASE tok.kind = "Name" -> tok.str = lex /\ lex # <<>>
      [] tok.kind = "Integer" ->
            /\ lex # <<>>
            /\ \A k \in DOMAIN lex : lex[k] \in Digits
            /\ tok.num = DecimalValue(lex, Len(lex))
      [] tok.kind = "Invalid" -> Len(lex) = 1
      [] OTHER -> lex # <<>> /\ lex = Spelling(tok.kind)

\* The kinds of the Tokens returned so far, in order.
Kinds == [i \in DOMAIN hist |-> hist[i].tok.kind]

\* The Tokens returned so far, in order.
Tokens == [i \in DOMAIN hist |-> hist[i].tok]

\* The latest call was next() and it returned None.
Exhausted == last.op = "next" /\ ret = <<>> /\ ~panicked

\* The token a two-character-aware symbol c followed by d must give.
SymbolFor(c, d) ==
    CASE c = ":" /\ d = "=" -> "Assign"
      [] c = "=" /\ d = "=" -> "Eq"
      [] c = ">" /\ d = "=" -> "Ge"
      [] c = "<" /\ d = "=" -> "Le"
      [] c = "<" /\ d = ">" -> "Ne"
      [] c = ":" /\ d # "=" -> "Colon"
      [] c = "=" /\ d # "=" -> "EqualSign"
      [] c = ">" /\ d # "=" -> "Gt"
      [] c = "<" /\ d \notin {"=", ">"} -> "Lt"

TwoCharKinds == {"Assign", "Eq", "Ge", "Le", "Ne"}

(***************************************************************************)
(* Properties                                                              *)
(***************************************************************************)
\* C1: every call of next() that returns a Token (Invalid included) has
\* consumed at least one character beyond the whitespace it skipped, so a
\* text of n characters yields at most n Tokens before next() stops
\* returning Tokens.
C1_Progress ==
    /\ \A i \in DOMAIN hist : hist[i].to >= hist[i].from + 1
                              /\ hist[i].from >= hist[i].start
    /\ (last.op = "next" /\ ret # <<>>) => Consumed(self) > last.start
    /\ Len(hist) <= Len(self.text)

\* C1 witness: a text with a character matching no rule has been scanned to
\* exhaustion, the Invalid token among those returned.
C1_Witness ==
    /\ Exhausted
    /\ \E i \in DOMAIN hist : hist[i].tok.kind = "Invalid"
    /\ Len(hist) >= 2

\* C2: a digit run whose value exceeds 2147483647 makes next() return a
\* NumericOverflow error result and does not panic.
C2_OverflowIsError ==
    (/\ last.op = "next"
     /\ CharAt(last.from) \in Digits
     /\ ~parse_i32(Slice(last.from, RunEnd(last.from, Digits))).ok)
    => (~panicked /\ ret = <<Tok("NumericOverflow")>>)

\* C3: the characters consumed are a prefix of the text, cut left to right
\* into skipped whitespace runs and the lexemes of the Tokens returned, one
\* per Token and in order with no gap and no overlap; at most the one
\* peeked character beyond them has been read, and it is still buffered.
C3_Slices ==
    /\ Consumed(self) <= Len(self.text)
    /\ \A i \in DOMAIN hist :
          /\ hist[i].start = (IF i = 1 THEN 0 ELSE hist[i - 1].to)
          /\ hist[i].start <= hist[i].from
          /\ hist[i].from < hist[i].to
          /\ hist[i].to <= Len(self.text)
          /\ AllIn(hist[i].start, hist[i].from, Whitespace)
          /\ IsLexemeOf(Slice(hist[i].from, hist[i].to), hist[i].tok)
    /\ (last.op = "next" /\ ret # <<>>) =>
          Consumed(self) = hist[Len(hist)].to
    /\ Exhausted =>
          /\ Consumed(self) = Len(self.text)
          /\ AllIn(IF hist = <<>> THEN 0 ELSE hist[Len(hist)].to,
                   Len(self.text), Whitespace)
    /\ self.iter \in {Consumed(self), Consumed(self) + 1}
    /\ self.iter = Consumed(self) + 1 =>
          self.peeked = <<self.text[self.iter]>>

\* C3 witness: two Tokens separated by whitespace have been returned and
\* the character after the second one is peeked but not consumed.
C3_Witness ==
    /\ Len(hist) = 2
    /\ hist[2].from > hist[2].start
    /\ self.iter = Consumed(self) + 1
    /\ last.op = "next" /\ ret # <<>>

\* C4: at ':', '=', '>' or '<' next() returns the two-character Token and
\* consumes both characters when the following character extends it, and
\* otherwise returns the one-character Token and consumes that one
\* character only, the following call starting at the character after it;
\* "+-*/::=<<=" gives Plus Minus Asterisk Slash Colon Assign Lt Le, then
\* None.
C4_TwoCharSymbols ==
    /\ \A i \in DOMAIN hist :
          CharAt(hist[i].from) \in {":", "=", ">", "<"} =>
             LET k == SymbolFor(CharAt(hist[i].from),
                                CharAt(hist[i].from + 1))
             IN  /\ hist[i].tok = Tok(k)
                 /\ hist[i].to = hist[i].from +
                                 (IF k \in TwoCharKinds THEN 2 ELSE 1)
                 /\ i < Len(hist) => hist[i + 1].start = hist[i].to
    /\ (last.op = "next" /\ ret # <<>>
        /\ CharAt(last.from) \in {":", "=", ">", "<"}) =>
          Consumed(self) = last.from +
             (IF ret[1].kind \in TwoCharKinds THEN 2 ELSE 1)
    /\ (self.text = TextSymbols /\ Exhausted) =>
          Kinds = <<"Plus", "Minus", "Asterisk", "Slash", "Colon", "Assign",
                    "Lt", "Le">>

\* C4 witness: '<' was followed by a character that does not extend it, Lt
\* was returned, and the following call returned the Token of that
\* character.
C4_Witness ==
    /\ Len(hist) >= 2
    /\ hist[1].tok = Tok("Lt")
    /\ hist[2].from = hist[1].to
    /\ hist[2].tok.kind \in {"Le", "EqualSign", "Plus"}

\* C5: next() returns None exactly when what is left of the text at the
\* call is only spaces, tabs and newlines (or nothing); the empty text and
\* a text of whitespace give no Token.
C5_Exhaustion ==
    /\ last.op = "next" =>
          ((ret = <<>> /\ ~panicked)
             <=> AllIn(last.start, Len(self.text), Whitespace))
    /\ Exhausted => Consumed(self) = Len(self.text)
    /\ (last.op = "next" /\ AllIn(0, Len(self.text), Whitespace)) =>
          hist = <<>>

\* C5 witness: a Token followed by whitespace up to the end of the text was
\* returned, and the call after it returned None.
C5_Witness ==
    /\ Exhausted
    /\ Len(hist) = 1
    /\ hist[1].to < Len(self.text)

\* C6: an identifier-shaped run gives the reserved-word Token exactly when
\* it is one of the eight lowercase spellings, and Name carrying the run
\* otherwise; "If" gives Name("If"), "if" gives If, and "and xxx if If"
\* gives And, Name("xxx"), If, Name("If").
C6_Keywords ==
    /\ \A i \in DOMAIN hist :
          CharAt(hist[i].from) \in Lower \cup Upper =>
             LET lex == Slice(hist[i].from, RunEnd(hist[i].from, AlnumChars))
             IN  hist[i].tok = (IF ReservedWord(lex) # ""
                                THEN Tok(ReservedWord(lex))
                                ELSE Name(lex))
    /\ (self.text = TextNames /\ Exhausted) =>
          Tokens = <<Tok("And"), Name(<<"x", "x", "x">>), Tok("If"),
                     Name(<<"I", "f">>)>>
    /\ (self.text = TextKeywords /\ Exhausted) =>
          Kinds = <<"And", "Array", "If", "Let", "Not", "Or", "Print",
                    "While">>

\* C6 witness: "and xxx if If" has been scanned to exhaustion.
C6_Witness ==
    /\ self.text = TextNames
    /\ Exhausted
    /\ Len(hist) = 4

\* C7: a Token that starts with a digit takes the maximal run of digits and
\* is Integer of its decimal value; a Token that starts with a letter takes
\* the maximal run of letters, digits and underscores; "123abc" gives
\* Integer(123), Name("abc"); "abc123" gives Name("abc123"); "1 2 3 123 987"
\* gives Integer 1, 2, 3, 123, 987.
C7_Classes ==
    /\ \A i \in DOMAIN hist :
          /\ CharAt(hist[i].from) \in Digits =>
                /\ hist[i].to = RunEnd(hist[i].from, Digits)
                /\ hist[i].tok =
                      Integer(DecimalValue(Slice(hist[i].from, hist[i].to),
                                           hist[i].to - hist[i].from))
          /\ CharAt(hist[i].from) \in Lower \cup Upper =>
                /\ hist[i].to = RunEnd(hist[i].from, AlnumChars)
                /\ hist[i].tok.kind # "Integer"
    /\ (self.text = TextIntName /\ Exhausted) =>
          Tokens = <<Integer(123), Name(<<"a", "b", "c">>)>>
    /\ (self.text = TextNameInt /\ Exhausted) =>
          Tokens = <<Name(<<"a", "b", "c", "1", "2", "3">>)>>
    /\ (self.text = TextInts /\ Exhausted) =>
          Tokens = <<Integer(1), Integer(2), Integer(3), Integer(123),
                     Integer(987)>>

\* C7 witness: "123abc" has been scanned to exhaustion.
C7_Witness ==
    /\ self.text = TextIntName
    /\ Exhausted
    /\ Len(hist) = 2

\* C8: no Token returned is a Boolean; "true" and "false" give Name.
C8_NoBoolean ==
    /\ \A i \in DOMAIN hist : hist[i].tok.kind # "Boolean"
    /\ ret # <<>> => ret[1].kind # "Boolean"
    /\ (self.text = TextTrue /\ last.op = "next") =>
          Tokens = <<Name(<<"t", "r", "u", "e">>)>>
    /\ (self.text = TextFalse /\ last.op = "next") =>
          Tokens = <<Name(<<"f", "a", "l", "s", "e">>)>>

\* C8 witness: "true" has been scanned and a Token returned for it.
C8_Witness ==
    /\ self.text = TextTrue
    /\ last.op = "next"
    /\ ret = <<Name(TextTrue)>>

\* C9: consume_whitespace, from any scanner state, consumes exactly the
\* maximal run of spaces, tabs and newlines at the cursor: afterwards the
\* peeked character is absent or no whitespace, nothing is consumed when
\* the cursor was at a non-whitespace character, and the Token of a next()
\* starts at the first non-whitespace character.
C9_ConsumeWhitespace ==
    /\ last.op = "consume_whitespace" =>
          /\ last.to = RunEnd(last.start, Whitespace)
          /\ Consumed(self) = last.to
          /\ peek_char(self).c = CharAt(last.to)
          /\ peek_char(self).c \notin Whitespace
          /\ CharAt(last.start) \notin Whitespace => last.to = last.start
    /\ (last.op = "next" /\ ret # <<>>) =>
          /\ last.from = RunEnd(last.start, Whitespace)
          /\ CharAt(last.from) \notin Whitespace \cup {None}
          /\ last.to > last.from

\* C9 witness: consume_whitespace was called with the cursor at a run of
\* several whitespace characters followed by another character, after at
\* least one character had been taken.
C9_Witness ==
    /\ last.op = "consume_whitespace"
    /\ last.start >= 1
    /\ last.to >= last.start + 2
    /\ last.to < Len(self.text)

\* C10: pos equals the number of characters consumed so far, whitespace and
\* Token characters alike.
C10_PosIsOffset == self.pos = Consumed(self)

====
